---- MODULE Spec2Model ----
(***************************************************************************)
(* kvdb-sled: the KeyValueDB facade over sled (src/kvdb-sled/src/lib.rs).  *)
(*                                                                         *)
(* The committed store is `columns`, the Vec<sled::Tree> of the Database.  *)
(* A sled::Tree is modelled as a function from the keys it holds to their  *)
(* values; keys are byte strings (sequences of bytes), ordered as sled     *)
(* orders them (lexicographically by byte).  A panic aborts the process:   *)
(* db = "aborted" is terminal.                                             *)
(***************************************************************************)
EXTENDS Integers, Sequences, FiniteSets, TLC

VARIABLES
    db,        \* "closed" | "open" | "aborted" (a panic unwound the caller)
    config,    \* DatabaseConfig.columns given to open (NoColumns: absent)
    columns,   \* Database.columns: sequence of trees, physical index i at i + 1
    num_columns, \* Database.num_columns
    call,      \* the API call of the writing/reading caller: in flight or returned
    it,        \* the DatabaseIter held by a caller
    corrupt    \* <<physical index, key>> entries the engine cursor cannot read

vars == <<db, config, columns, num_columns, call, it, corrupt>>

----------------------------------------------------------------------------
(* Bounds of the model and widths of the program's integers.               *)

MaxOps == 2          \* operations per transaction
MaxCorrupt == 1      \* entries the engine has lost at one time
U8 == 256            \* `as u8`, and the u8 arithmetic of open
HiMax == 16777215    \* a u32 is hi * 256 + lo, hi in 0..HiMax, lo in 0..255
NoColumns == -1      \* config.columns = None

Values == {1, 2}
Keys3 == {<<1>>, <<1, 2>>, <<2>>}
Keys2 == {<<1>>, <<1, 2>>}
Prefixes == {<<>>, <<1>>, <<1, 2>>, <<2>>, <<2, 1>>}

\* Option<u32>: a logical column.  u32 values are kept as (hi, lo) so that
\* u32::MAX and its overflow are represented exactly.
NoneCol == [some |-> FALSE, hi |-> 0, lo |-> 0]
SomeCol(c) == [some |-> TRUE, hi |-> c \div U8, lo |-> c % U8]
U32MaxCol == [some |-> TRUE, hi |-> HiMax, lo |-> U8 - 1]

ColIds == {NoneCol, SomeCol(0), SomeCol(255)}
GetCols == {NoneCol, SomeCol(0), SomeCol(1), SomeCol(255), SomeCol(256), U32MaxCol}
ConfigColumns == {NoColumns, 0, 3, 7, 8, 255}

----------------------------------------------------------------------------
(* Byte-string order of the engine.                                        *)

Min(a, b) == IF a <= b THEN a ELSE b

\* a is a (not necessarily proper) prefix of b
IsPrefix(a, b) ==
    /\ Len(a) <= Len(b)
    /\ \A i \in 1..Len(a) : a[i] = b[i]

\* lexicographic a < b on byte strings
KeyLess(a, b) ==
    \/ /\ Len(a) < Len(b)
       /\ IsPrefix(a, b)
    \/ \E i \in 1..Min(Len(a), Len(b)) :
          /\ a[i] < b[i]
          /\ \A j \in 1..(i - 1) : a[j] = b[j]

----------------------------------------------------------------------------
(* Trees.                                                                  *)

EmptyTree == [k \in {} |-> 0]

\* TreeInsert that leaves a key already held at its old value
TreeInsertKeepOld(t, key, value) ==
    [k \in (DOMAIN t) \cup {key} |-> IF k \in DOMAIN t THEN t[k] ELSE value]

TreeInsert(t, key, value) ==
    [k \in (DOMAIN t) \cup {key} |-> IF k = key THEN value ELSE t[k]]

TreeRemove(t, key) ==
    [k \in (DOMAIN t) \ {key} |-> t[k]]

----------------------------------------------------------------------------
(* Results.                                                                *)

RetOk == [tag |-> "Ok"]
RetSome(v) == [tag |-> "Some", val |-> v]
RetNone == [tag |-> "None"]
RetErr(kind) == [tag |-> "Err", kind |-> kind]
RetPanic(why) == [tag |-> "Panic", why |-> why]
RetPending == [tag |-> "Pending"]

NoCall == [op |-> "none", pc |-> "done"]
NoIter == [live |-> FALSE, col |-> NoneCol]

----------------------------------------------------------------------------
(* Database::to_sled_column: Option<u32> -> u8.  `c + 1` is u32 arithmetic *)
(* (it overflows only at u32::MAX: a panic with overflow checks, a wrap to *)
(* 0 without); `as u8` truncates.                                          *)

to_sled_column(col) ==
    IF ~col.some THEN 0 ELSE (col.lo + 1) % U8

ColumnOverflows(col) == col.some /\ col.hi = HiMax /\ col.lo = U8 - 1

\* self.columns[col as usize]: the tree, or the index-out-of-bounds panic.
\* `checks`: whether the build carries overflow checks.
IndexPanics(cols, col, checks) ==
    \/ ColumnOverflows(col) /\ checks
    \/ to_sled_column(col) >= Len(cols)

TreeAt(cols, col) == cols[to_sled_column(col) + 1]

----------------------------------------------------------------------------
(* Database::open.                                                         *)

\* config.columns.map_or(0, |c| c + 1): u8 arithmetic
OpenNumColumns(cfg) == IF cfg = NoColumns THEN 0 ELSE (cfg + 1) % U8

OpenOverflows(cfg) == cfg # NoColumns /\ cfg + 1 >= U8

\* (0..=num_columns).map(open_tree): trees col0 .. col{num_columns}
OpenTrees(n) == [i \in 1..(n + 1) |-> EmptyTree]

Open(cfg, checks, fails) ==
    /\ db = "closed"
    /\ UNCHANGED <<it, corrupt>>
    /\ IF fails
       THEN /\ call' = [op |-> "open", pc |-> "returned", ret |-> RetErr("OpenFailed")]
            /\ UNCHANGED <<db, config, columns, num_columns>>
       ELSE IF OpenOverflows(cfg) /\ checks
       THEN /\ call' = [op |-> "open", pc |-> "returned",
                        ret |-> RetPanic("attempt to add with overflow")]
            /\ db' = "aborted"
            /\ UNCHANGED <<config, columns, num_columns>>
       ELSE /\ call' = [op |-> "open", pc |-> "returned", ret |-> RetOk]
            /\ db' = "open"
            /\ config' = cfg
            /\ num_columns' = OpenNumColumns(cfg)
            /\ columns' = OpenTrees(OpenNumColumns(cfg))

----------------------------------------------------------------------------
(* Database::get.                                                          *)

\* sled::Tree::get, then DBValue::from_slice: a copy of the stored bytes
TreeGet(t, idx, key) ==
    IF <<idx, key>> \in corrupt THEN RetErr("ReadFailed")
    ELSE IF key \in DOMAIN t THEN RetSome(t[key])
    ELSE RetNone

GetResult(cols, col, key, checks) ==
    IF IndexPanics(cols, col, checks)
    THEN RetPanic("index out of bounds")
    ELSE TreeGet(TreeAt(cols, col), to_sled_column(col), key)

Get(col, key, checks) ==
    /\ db = "open"
    /\ call.pc = "done"
    /\ call' = [op |-> "get", pc |-> "returned", col |-> col, key |-> key,
                ret |-> GetResult(columns, col, key, checks)]
    /\ db' = IF IndexPanics(columns, col, checks) THEN "aborted" ELSE db
    /\ UNCHANGED <<config, columns, num_columns, corrupt>>

----------------------------------------------------------------------------
(* Database::write.  The closure runs on the engine's transactional view   *)
(* (`staged`); the committed trees change only when the engine commits.    *)

Insert(col, key, value) == [kind |-> "Insert", col |-> col, key |-> key, value |-> value]
Delete(col, key) == [kind |-> "Delete", col |-> col, key |-> key]

\* match &self.columns[..] { [c1] => .., [c1, .., c9] => .., _ => panic!() }
SupportedArity(n) == n = 1 \/ n = 9

\* ApplyOp with the Delete arm lost
ApplyOpInsertOnly(staged, op) ==
    LET i == to_sled_column(op.col) + 1 IN
    IF op.kind = "Insert"
    THEN [staged EXCEPT ![i] = TreeInsert(@, op.key, op.value)]
    ELSE staged

\* ApplyOp with the Insert arm writing to columns[0], its column unresolved
ApplyOpInsertDefault(staged, op) ==
    LET i == to_sled_column(op.col) + 1 IN
    IF op.kind = "Insert"
    THEN [staged EXCEPT ![1] = TreeInsert(@, op.key, op.value)]
    ELSE [staged EXCEPT ![i] = TreeRemove(@, op.key)]

\* one arm of `match op`, past the index check
ApplyOp(staged, op) ==
    LET i == to_sled_column(op.col) + 1 IN
    IF op.kind = "Insert"
    THEN [staged EXCEPT ![i] = TreeInsert(@, op.key, op.value)]
    ELSE [staged EXCEPT ![i] = TreeRemove(@, op.key)]

\* TxAbort with the operations applied before the failure left in place
TxAbortKeepsStaged(cols, staged) == staged

\* what the engine leaves committed when the closure returns Err / Ok
TxAbort(cols, staged) == cols

TxCommit(cols, staged) == staged

\* the cells a transaction addresses
Cells(tr) == {<<to_sled_column(tr[j].col), tr[j].key>> : j \in 1..Len(tr)}

\* a DatabaseIter in progress sees the tree it reads change
IterObserve(cols) ==
    IF it.live /\ ~it.ended
    THEN [it EXCEPT !.versions = @ \cup {cols[it.idx + 1]}]
    ELSE it

WriteBegin(tr) ==
    /\ db = "open"
    /\ call.pc = "done"
    /\ UNCHANGED <<config, columns, num_columns, corrupt>>
    /\ IF SupportedArity(Len(columns))
       THEN /\ call' = [op |-> "write", pc |-> "staging", tr |-> tr, i |-> 1,
                        pre |-> columns, staged |-> columns, ret |-> RetPending]
            /\ UNCHANGED db
       ELSE /\ call' = [op |-> "write", pc |-> "returned", tr |-> tr, i |-> 1,
                        pre |-> columns, staged |-> columns,
                        ret |-> RetPanic("only up to 9 columns are supported ATM")]
            /\ db' = "aborted"

WriteOp(checks, fails) ==
    /\ db = "open"
    /\ call.op = "write"
    /\ call.pc = "staging"
    /\ call.i <= Len(call.tr)
    /\ UNCHANGED <<config, num_columns, it, corrupt>>
    /\ LET op == call.tr[call.i] IN
       IF IndexPanics(call.staged, op.col, checks)
       THEN /\ call' = [call EXCEPT !.pc = "returned",
                                    !.ret = RetPanic("index out of bounds")]
            /\ db' = "aborted"
            /\ columns' = TxAbort(columns, call.staged)
       ELSE IF fails
       THEN /\ call' = [call EXCEPT !.pc = "returned",
                                    !.ret = RetErr("TransactionFailed")]
            /\ columns' = TxAbort(columns, call.staged)
            /\ UNCHANGED db
       ELSE /\ call' = [call EXCEPT !.staged = ApplyOp(@, op), !.i = @ + 1]
            /\ UNCHANGED <<db, columns>>

WriteCommit ==
    /\ db = "open"
    /\ call.op = "write"
    /\ call.pc = "staging"
    /\ call.i > Len(call.tr)
    /\ columns' = TxCommit(columns, call.staged)
    /\ call' = [call EXCEPT !.pc = "returned", !.ret = RetOk]
    /\ it' = IterObserve(columns')
    /\ corrupt' = corrupt \ Cells(call.tr)
    /\ UNCHANGED <<db, config, num_columns>>

\* the call was made by another method of the Database, which it returns to
InnerCall(c) == "outer" \in DOMAIN c

\* the caller has taken the returned value: the call's arguments are dropped
Return ==
    /\ db # "aborted"
    /\ call.pc = "returned"
    /\ ~InnerCall(call)
    /\ call' = NoCall
    /\ UNCHANGED <<db, config, columns, num_columns, it, corrupt>>

----------------------------------------------------------------------------
(* Database::write_buffered: `let result = self.write(tr);`, then a        *)
(* warning when the result is an Err.  A panic of write unwinds through    *)
(* it.                                                                     *)

WriteBufferedBegin(tr) ==
    /\ db = "open"
    /\ call.pc = "done"
    /\ UNCHANGED <<config, columns, num_columns, corrupt>>
    /\ IF SupportedArity(Len(columns))
       THEN /\ call' = [op |-> "write", outer |-> "write_buffered",
                        pc |-> "staging", tr |-> tr, i |-> 1,
                        pre |-> columns, staged |-> columns, ret |-> RetPending]
            /\ UNCHANGED db
       ELSE /\ call' = [op |-> "write", outer |-> "write_buffered",
                        pc |-> "returned", tr |-> tr, i |-> 1,
                        pre |-> columns, staged |-> columns,
                        ret |-> RetPanic("only up to 9 columns are supported ATM")]
            /\ db' = "aborted"

\* write has returned to write_buffered, which returns ()
WriteBufferedEnd ==
    /\ db = "open"
    /\ InnerCall(call)
    /\ call.outer = "write_buffered"
    /\ call.pc = "returned"
    /\ call' = [op |-> "write_buffered", pc |-> "returned", tr |-> call.tr,
                pre |-> call.pre, result |-> call.ret,
                warned |-> (call.ret.tag = "Err"), ret |-> RetOk]
    /\ UNCHANGED <<db, config, columns, num_columns, it, corrupt>>

----------------------------------------------------------------------------
(* Database::flush: `for tree in &self.columns { tree.flush()?; } Ok(())`. *)
(* `asked` lists the trees whose flush was requested, `flushed` those the  *)
(* engine flushed, both in the order of the requests.                      *)

FlushBegin ==
    /\ db = "open"
    /\ call.pc = "done"
    /\ call' = [op |-> "flush", pc |-> "flushing", i |-> 1,
                asked |-> <<>>, flushed |-> <<>>, ret |-> RetPending]
    /\ UNCHANGED <<db, config, columns, num_columns, corrupt>>

\* FlushStep with the `?` lost: the loop goes on past a failed flush
FlushStepSkipsFailure(c, fails) ==
    [c EXCEPT !.asked = Append(@, c.i - 1),
              !.flushed = IF fails THEN @ ELSE Append(@, c.i - 1),
              !.i = @ + 1]

\* one turn of the loop: tree.flush().map_err(other_io_err)?
FlushStep(c, fails) ==
    IF fails
    THEN [c EXCEPT !.asked = Append(@, c.i - 1),
                   !.pc = "returned", !.ret = RetErr("FlushFailed")]
    ELSE [c EXCEPT !.asked = Append(@, c.i - 1),
                   !.flushed = Append(@, c.i - 1),
                   !.i = @ + 1]

FlushTree(fails) ==
    /\ db = "open"
    /\ call.op = "flush"
    /\ call.pc = "flushing"
    /\ call.i <= Len(columns)
    /\ call' = FlushStep(call, fails)
    /\ UNCHANGED <<db, config, columns, num_columns, it, corrupt>>

\* the loop is over: Ok(())
FlushEnd ==
    /\ db = "open"
    /\ call.op = "flush"
    /\ call.pc = "flushing"
    /\ call.i > Len(columns)
    /\ call' = [call EXCEPT !.pc = "returned", !.ret = RetOk]
    /\ UNCHANGED <<db, config, columns, num_columns, it, corrupt>>

----------------------------------------------------------------------------
(* Drop for Database: `let _ = self.flush();`.  The Database is gone when  *)
(* drop returns.                                                           *)

DropBegin ==
    /\ db = "open"
    /\ call.pc = "done"
    /\ call' = [op |-> "flush", outer |-> "drop", pc |-> "flushing", i |-> 1,
                asked |-> <<>>, flushed |-> <<>>, ret |-> RetPending]
    /\ UNCHANGED <<db, config, columns, num_columns, corrupt>>

\* DropResult with the result of flush handed on to the caller
DropPropagates(result) == result

\* `let _ =`: the result of flush is discarded
DropResult(result) == RetOk

DropEnd ==
    /\ db = "open"
    /\ InnerCall(call)
    /\ call.outer = "drop"
    /\ call.pc = "returned"
    /\ call' = [op |-> "drop", pc |-> "returned", trees |-> Len(columns),
                asked |-> call.asked, result |-> call.ret,
                ret |-> DropResult(call.ret)]
    /\ db' = "closed"
    /\ config' = NoColumns
    /\ columns' = <<>>
    /\ num_columns' = 0
    /\ UNCHANGED <<it, corrupt>>

----------------------------------------------------------------------------
(* Database::iter, Database::iter_from_prefix and DatabaseIter::next.      *)
(* sled::Iter is a live cursor: it reads the tree as it is at each step,   *)
(* from the last key it passed, within the range it was made for.          *)

\* MinKey with the cursor running from the far end
MaxKey(S) == CHOOSE k \in S : \A j \in S : j = k \/ KeyLess(j, k)

\* the least key of a non-empty set of keys, in the engine's order
MinKey(S) == CHOOSE k \in S : \A j \in S : j = k \/ KeyLess(k, j)

\* the keys the cursor has still to visit
Ahead(t, cur) ==
    {k \in DOMAIN t : cur.started => KeyLess(cur.key, k)}

\* the range of get_gt(prefix): the keys strictly beyond the prefix
ScanPrefixGt(t, prefix) ==
    {k \in DOMAIN t : IsPrefix(prefix, k) /\ k # prefix}

\* the range of sled::Tree::scan_prefix: the keys that start with prefix
ScanPrefix(t, prefix) ==
    {k \in DOMAIN t : IsPrefix(prefix, k)}

IterStart(col, checks) ==
    /\ db = "open"
    /\ UNCHANGED <<config, columns, num_columns, call, corrupt>>
    /\ IF IndexPanics(columns, col, checks)
       THEN /\ db' = "aborted"
            /\ it' = [live |-> FALSE, col |-> col]
       ELSE /\ it' = [live |-> TRUE, col |-> col, idx |-> to_sled_column(col),
                      prefix |-> <<>>,
                      cur |-> [started |-> FALSE, key |-> <<>>],
                      ended |-> FALSE, sawErr |-> FALSE, out |-> <<>>,
                      versions |-> {TreeAt(columns, col)}]
            /\ UNCHANGED db

IterFromPrefix(col, prefix, checks) ==
    /\ db = "open"
    /\ UNCHANGED <<config, columns, num_columns, call, corrupt>>
    /\ IF IndexPanics(columns, col, checks)
       THEN /\ db' = "aborted"
            /\ it' = [live |-> FALSE, col |-> col]
       ELSE /\ it' = [live |-> TRUE, col |-> col, idx |-> to_sled_column(col),
                      prefix |-> prefix,
                      cur |-> [started |-> FALSE, key |-> <<>>],
                      ended |-> FALSE, sawErr |-> FALSE, out |-> <<>>,
                      versions |-> {TreeAt(columns, col)}]
            /\ UNCHANGED db

\* self.inner.next().and_then(|result| { let (k, v) = result.ok()?; Some(..) })
\* The caller consumes the Iterator until its first None.
IterNext ==
    /\ db = "open"
    /\ it.live
    /\ ~it.ended
    /\ UNCHANGED <<db, config, columns, num_columns, call, corrupt>>
    /\ LET t == columns[it.idx + 1]
           ahead == Ahead(t, it.cur) \cap ScanPrefix(t, it.prefix) IN
       IF ahead = {}
       THEN it' = [it EXCEPT !.ended = TRUE]
       ELSE LET k == MinKey(ahead) IN
            IF <<it.idx, k>> \in corrupt
            THEN it' = [it EXCEPT !.cur = [started |-> TRUE, key |-> k],
                                  !.ended = TRUE, !.sawErr = TRUE]
            ELSE it' = [it EXCEPT !.cur = [started |-> TRUE, key |-> k],
                                  !.out = Append(@, <<k, t[k]>>)]

\* get_by_prefix by the get_gt fast path the source leaves commented out
GetByPrefixResultGt(cols, col, prefix, checks) ==
    IF IndexPanics(cols, col, checks)
    THEN RetPanic("index out of bounds")
    ELSE LET t == TreeAt(cols, col)
             beyond == {k \in DOMAIN t : KeyLess(prefix, k)} IN
         IF beyond = {} THEN RetNone
         ELSE IF <<to_sled_column(col), MinKey(beyond)>> \in corrupt THEN RetNone
         ELSE IF IsPrefix(prefix, MinKey(beyond)) THEN RetSome(t[MinKey(beyond)])
         ELSE RetNone

\* self.iter_from_prefix(col, prefix).next().map(|(_, v)| v): the first step
\* of a fresh prefix cursor, its key dropped
GetByPrefixResult(cols, col, prefix, checks) ==
    IF IndexPanics(cols, col, checks)
    THEN RetPanic("index out of bounds")
    ELSE LET t == TreeAt(cols, col)
             ahead == ScanPrefix(t, prefix) IN
         IF ahead = {} THEN RetNone
         ELSE IF <<to_sled_column(col), MinKey(ahead)>> \in corrupt THEN RetNone
         ELSE RetSome(t[MinKey(ahead)])

GetByPrefix(col, prefix, checks) ==
    /\ db = "open"
    /\ call.pc = "done"
    /\ call' = [op |-> "get_by_prefix", pc |-> "returned", col |-> col,
                prefix |-> prefix,
                ret |-> GetByPrefixResult(columns, col, prefix, checks)]
    /\ db' = IF IndexPanics(columns, col, checks) THEN "aborted" ELSE db
    /\ UNCHANGED <<config, columns, num_columns, corrupt>>

\* the caller drops the iterator it has consumed
IterDrop ==
    /\ db = "open"
    /\ it.live
    /\ it.ended
    /\ it' = NoIter
    /\ UNCHANGED <<db, config, columns, num_columns, call, corrupt>>

\* the engine: an entry of a tree becomes unreadable
Corrupt(idx, key) ==
    /\ db = "open"
    /\ Cardinality(corrupt) < MaxCorrupt
    /\ idx < Len(columns)
    /\ key \in DOMAIN columns[idx + 1]
    /\ corrupt' = corrupt \cup {<<idx, key>>}
    /\ UNCHANGED <<db, config, columns, num_columns, call, it>>

----------------------------------------------------------------------------
(* Specifications.                                                         *)

Ops(cols, keys, vals) ==
    {Insert(c, k, v) : c \in cols, k \in keys, v \in vals}
        \cup {Delete(c, k) : c \in cols, k \in keys}

\* the transactions of at most `most` operations
Transactions(cols, keys, vals, most) ==
    UNION {[1..n -> Ops(cols, keys, vals)] : n \in 1..most}

Init ==
    /\ db = "closed"
    /\ config = NoColumns
    /\ columns = <<>>
    /\ num_columns = 0
    /\ call = NoCall
    /\ it = NoIter
    /\ corrupt = {}

\* one caller: one call at a time, and an iterator is consumed to its end
\* and dropped before the next call
Quiet == call = NoCall /\ it = NoIter

Next ==
    \/ /\ Quiet
       /\ \E cfg \in ConfigColumns, checks \in BOOLEAN, fails \in BOOLEAN :
             Open(cfg, checks, fails)
    \/ /\ Quiet
       /\ \E tr \in Transactions(ColIds, Keys2, Values, MaxOps) :
             WriteBegin(tr) /\ UNCHANGED it
    \/ \E checks \in BOOLEAN, fails \in BOOLEAN : WriteOp(checks, fails)
    \/ WriteCommit
    \/ /\ Quiet
       /\ \E col \in GetCols, key \in Keys2, checks \in BOOLEAN :
             Get(col, key, checks) /\ UNCHANGED it
    \/ Return
    \/ /\ Quiet
       /\ \E col \in GetCols, checks \in BOOLEAN : IterStart(col, checks)
    \/ IterNext
    \/ IterDrop

Spec == Init /\ [][Next]_vars

\* one caller that fills two columns entry by entry and iterates over them,
\* while the engine may lose an entry
NextIter ==
    \/ /\ Quiet
       /\ \E cfg \in {NoColumns, 7}, checks \in BOOLEAN, fails \in BOOLEAN :
             Open(cfg, checks, fails)
    \/ /\ Quiet
       /\ \E tr \in Transactions({NoneCol, SomeCol(0)}, Keys3, Values, 1) :
             WriteBegin(tr) /\ UNCHANGED it
    \/ \E checks \in BOOLEAN, fails \in BOOLEAN : WriteOp(checks, fails)
    \/ WriteCommit
    \/ Return
    \/ /\ Quiet
       /\ \E col \in ColIds, checks \in BOOLEAN : IterStart(col, checks)
    \/ IterNext
    \/ IterDrop
    \/ \E idx \in 0..1, key \in Keys3 : Corrupt(idx, key)

SpecIter == Init /\ [][NextIter]_vars

\* callers sharing the Database: an iterator is stepped by its holder while
\* another caller writes
NextConc ==
    \/ /\ Quiet
       /\ \E checks \in BOOLEAN, fails \in BOOLEAN :
             Open(NoColumns, checks, fails)
    \/ /\ call = NoCall
       /\ \E tr \in Transactions({NoneCol}, Keys2, {1}, MaxOps) :
             WriteBegin(tr) /\ UNCHANGED it
    \/ \E checks \in BOOLEAN, fails \in BOOLEAN : WriteOp(checks, fails)
    \/ WriteCommit
    \/ Return
    \/ /\ it = NoIter
       /\ \E checks \in BOOLEAN : IterStart(NoneCol, checks)
    \/ IterNext
    \/ IterDrop

SpecConc == Init /\ [][NextConc]_vars

\* one caller that fills two columns entry by entry and reads them by prefix,
\* while the engine may lose an entry
NextPrefix ==
    \/ /\ Quiet
       /\ \E cfg \in {NoColumns, 7}, checks \in BOOLEAN, fails \in BOOLEAN :
             Open(cfg, checks, fails)
    \/ /\ Quiet
       /\ \E tr \in Transactions({NoneCol, SomeCol(0)}, Keys3, Values, 1) :
             WriteBegin(tr) /\ UNCHANGED it
    \/ \E checks \in BOOLEAN, fails \in BOOLEAN : WriteOp(checks, fails)
    \/ WriteCommit
    \/ Return
    \/ /\ Quiet
       /\ \E col \in ColIds, prefix \in Prefixes, checks \in BOOLEAN :
             IterFromPrefix(col, prefix, checks)
    \/ IterNext
    \/ IterDrop
    \/ /\ Quiet
       /\ \E col \in ColIds, prefix \in Prefixes, checks \in BOOLEAN :
             GetByPrefix(col, prefix, checks) /\ UNCHANGED it
    \/ \E idx \in 0..1, key \in Keys3 : Corrupt(idx, key)

SpecPrefix == Init /\ [][NextPrefix]_vars

\* one caller that writes through write_buffered, flushes and drops the
\* Database, while the engine may fail a write or a flush
NextMaint ==
    \/ /\ Quiet
       /\ \E cfg \in {NoColumns, 3, 7}, checks \in BOOLEAN, fails \in BOOLEAN :
             Open(cfg, checks, fails)
    \/ /\ Quiet
       /\ \E tr \in Transactions({NoneCol, SomeCol(0)}, Keys2, Values, MaxOps) :
             WriteBufferedBegin(tr) /\ UNCHANGED it
    \/ \E checks \in BOOLEAN, fails \in BOOLEAN : WriteOp(checks, fails)
    \/ WriteCommit
    \/ WriteBufferedEnd
    \/ /\ Quiet
       /\ FlushBegin /\ UNCHANGED it
    \/ \E fails \in BOOLEAN : FlushTree(fails)
    \/ FlushEnd
    \/ /\ Quiet
       /\ DropBegin /\ UNCHANGED it
    \/ DropEnd
    \/ Return

SpecMaint == Init /\ [][NextMaint]_vars

----------------------------------------------------------------------------
(* Vocabulary of the properties.                                           *)

\* the logical columns the configuration declares: 0 .. columns - 1
DeclaredCount == IF config = NoColumns THEN 0 ELSE config

Declared(col) == ~col.some \/ (col.hi = 0 /\ col.lo < DeclaredCount)

\* resolve of the specification: 0 for none, c + 1 for column c
ResolvesPlainly(col) ==
    ~col.some \/ (col.hi = 0 /\ to_sled_column(col) = col.lo + 1)

WriteReturned == call.op = "write" /\ call.pc = "returned"

WriteCommitted == WriteReturned /\ call.ret = RetOk

CellOf(op) == <<to_sled_column(op.col), op.key>>

\* no later operation of tr addresses the cell of operation j
LastOnCell(tr, j) ==
    \A m \in (j + 1)..Len(tr) : CellOf(tr[m]) # CellOf(tr[j])

DistinctCells(tr) ==
    \A a, b \in 1..Len(tr) : a # b => CellOf(tr[a]) # CellOf(tr[b])

\* the committed trees after the operations of tr, applied in list order
RECURSIVE ApplyAll(_, _)
ApplyAll(cols, tr) ==
    IF tr = <<>> THEN cols ELSE ApplyAll(ApplyOp(cols, Head(tr)), Tail(tr))

Perms(n) == {p \in [1..n -> 1..n] : \A a, b \in 1..n : a # b => p[a] # p[b]}

Permuted(tr, p) == [j \in 1..Len(tr) |-> tr[p[j]]]

\* out is exactly the entries of tree t, in ascending key order
Yields(out, t) ==
    /\ Len(out) = Cardinality(DOMAIN t)
    /\ \A k \in DOMAIN t : \E i \in 1..Len(out) : out[i] = <<k, t[k]>>
    /\ \A i, j \in 1..Len(out) : i < j => KeyLess(out[i][1], out[j][1])

IterEnded == it.live /\ it.ended

\* key starts with the bytes of p
HasPrefix(key, p) == Len(p) <= Len(key) /\ SubSeq(key, 1, Len(p)) = p

\* the entries of tree t whose key starts with p
Matching(t, p) == {k \in DOMAIN t : HasPrefix(k, p)}

\* out is exactly the entries of t under prefix p, in ascending key order
YieldsPrefix(out, t, p) ==
    /\ Len(out) = Cardinality(Matching(t, p))
    /\ \A k \in Matching(t, p) : \E i \in 1..Len(out) : out[i] = <<k, t[k]>>
    /\ \A i, j \in 1..Len(out) : i < j => KeyLess(out[i][1], out[j][1])

\* every operation of tr names a declared column
AllDeclared(tr) == \A j \in 1..Len(tr) : Declared(tr[j].col)

\* some operation of tr names logical column d and key k
Names(tr, d, k) == \E j \in 1..Len(tr) : tr[j].col = d /\ tr[j].key = k

\* what tree number i (from 1) of cols holds under key k
Held(cols, i, k) ==
    IF k \in DOMAIN cols[i] THEN RetSome(cols[i][k]) ELSE RetNone

\* the first m trees in registry order: physical indices 0 .. m - 1
Registry(m) == [j \in 1..m |-> j - 1]

\* the call write_buffered makes to write
InWriteBuffered == InnerCall(call) /\ call.outer = "write_buffered"

\* the call drop makes to flush
InDrop == InnerCall(call) /\ call.outer = "drop"

\* no entry of tree idx under prefix p is in error
Readable(idx, t, p) == \A k \in Matching(t, p) : <<idx, k>> \notin corrupt

----------------------------------------------------------------------------
(* C1: Round-trip.  On any successfully opened database, for every         *)
(* declared logical column c (and the default column), key k and value v,  *)
(* write([Insert{c,k,v}]) returns Ok and a following get(c,k) returns v.   *)
(* (A write the engine itself fails is left aside.)  The code aborts in    *)
(* write whenever the database holds neither 1 nor 9 trees.                *)
C1_RoundTrip ==
    (/\ WriteReturned
     /\ Len(call.tr) = 1
     /\ call.tr[1].kind = "Insert"
     /\ Declared(call.tr[1].col)
     /\ call.ret.tag # "Err")
    => /\ call.ret = RetOk
       /\ \A checks \in BOOLEAN :
             GetResult(columns, call.tr[1].col, call.tr[1].key, checks)
                = RetSome(call.tr[1].value)

----------------------------------------------------------------------------
(* C2: Deletion.  As stated: after a committed write that holds            *)
(* Delete{c,k}, on a key an earlier committed write had inserted,          *)
(* get(c,k) returns none.                                                  *)
C2_DeletionAsStated ==
    WriteCommitted =>
       \A j \in 1..Len(call.tr) :
          (/\ call.tr[j].kind = "Delete"
           /\ call.tr[j].key \in DOMAIN TreeAt(call.pre, call.tr[j].col))
          => \A checks \in BOOLEAN :
                GetResult(columns, call.tr[j].col, call.tr[j].key, checks) = RetNone

(* C2, amended: after a committed write in which Delete{c,k} is the last   *)
(* operation addressing key k of the segment c resolves to, get(c,k)       *)
(* returns none.                                                           *)
C2_Deletion ==
    WriteCommitted =>
       \A j \in 1..Len(call.tr) :
          (call.tr[j].kind = "Delete" /\ LastOnCell(call.tr, j))
          => \A checks \in BOOLEAN :
                GetResult(columns, call.tr[j].col, call.tr[j].key, checks) = RetNone

\* a committed Delete, last on its cell, of a key that was committed before
C2_Witness ==
    /\ WriteCommitted
    /\ \E j \in 1..Len(call.tr) :
          /\ call.tr[j].kind = "Delete"
          /\ LastOnCell(call.tr, j)
          /\ call.tr[j].key \in DOMAIN TreeAt(call.pre, call.tr[j].col)
          /\ GetResult(columns, call.tr[j].col, call.tr[j].key, FALSE) = RetNone

----------------------------------------------------------------------------
(* C3: Atomic visibility.  A reader running interleaved with a write       *)
(* observes none or all of the transaction's operations: what a completed  *)
(* iteration has yielded is the content of its tree as some commit left    *)
(* it.  The iterator is a live cursor stepped across commits.              *)
C3_AtomicVisibility ==
    (IterEnded /\ ~it.sawErr) => \E t \in it.versions : Yields(it.out, t)

----------------------------------------------------------------------------
(* C4: Rollback on failure.  When an operation of a transaction fails      *)
(* inside write, write returns the error TransactionFailed and every       *)
(* segment holds what it held before the call, the operations of the same  *)
(* transaction that preceded the failing one included.                     *)
C4_Rollback ==
    (WriteReturned /\ call.ret.tag = "Err")
    => /\ call.ret = RetErr("TransactionFailed")
       /\ columns = call.pre

\* the second operation failed after the first had changed the staged view
C4_Witness ==
    /\ WriteReturned
    /\ call.ret = RetErr("TransactionFailed")
    /\ call.i = 2
    /\ call.staged # call.pre
    /\ columns = call.pre

----------------------------------------------------------------------------
(* C5: Segment count after open.  A successful open with no columns        *)
(* option holds exactly 1 segment, and with columns = n exactly n + 1.     *)
(* The code opens trees 0..=num_columns with num_columns = n + 1.          *)
C5_SegmentCount ==
    db = "open" =>
       Len(columns) = (IF config = NoColumns THEN 1 ELSE config + 1)

----------------------------------------------------------------------------
(* C6: Column resolution without wraparound.  resolve(c) = c + 1 for every *)
(* logical column c: a get that did not end in the fatal                   *)
(* index-out-of-bounds condition has read the segment at index c + 1.      *)
(* The code truncates c + 1 to a u8.                                       *)
C6_NoWraparound ==
    (/\ call.op = "get"
     /\ call.pc = "returned"
     /\ call.ret.tag # "Panic")
    => ResolvesPlainly(call.col)

----------------------------------------------------------------------------
(* C7: Unsupported arity.  A write on a database whose segment count has   *)
(* no supported arity returns the error UnsupportedColumnCount and does    *)
(* not abort the process.                                                  *)
C7_UnsupportedArity ==
    (WriteReturned /\ ~SupportedArity(Len(columns)))
    => /\ call.ret = RetErr("UnsupportedColumnCount")
       /\ db # "aborted"

----------------------------------------------------------------------------
(* C8: Order independence.  As stated: every permutation of a committed    *)
(* transaction's operations, committed from the same starting state,       *)
(* leaves the same contents in every segment.                              *)
C8_OrderIndependence ==
    WriteCommitted =>
       \A p \in Perms(Len(call.tr)) :
          ApplyAll(call.pre, Permuted(call.tr, p)) = columns

(* C8, amended: the same, for a transaction no two operations of which     *)
(* address the same key of the same segment.                               *)
C8_OrderIndependenceDistinct ==
    (WriteCommitted /\ DistinctCells(call.tr)) =>
       \A p \in Perms(Len(call.tr)) :
          ApplyAll(call.pre, Permuted(call.tr, p)) = columns

\* a committed insert and delete on different cells that changed the store
C8_Witness ==
    /\ WriteCommitted
    /\ Len(call.tr) = 2
    /\ DistinctCells(call.tr)
    /\ call.tr[1].kind = "Delete"
    /\ call.tr[2].kind = "Insert"
    /\ call.tr[1].key \in DOMAIN TreeAt(call.pre, call.tr[1].col)
    /\ columns = ApplyAll(call.pre, <<call.tr[2], call.tr[1]>>)

----------------------------------------------------------------------------
(* C9: Iteration skips corruption.  When the cursor reports an error for   *)
(* one entry, the sequence continues: a consumed iteration has yielded     *)
(* every readable entry of its tree.  The code returns None, the end of    *)
(* the sequence, for the entry in error.                                   *)
C9_SkipsCorruption ==
    IterEnded =>
       \A k \in DOMAIN columns[it.idx + 1] :
          <<it.idx, k>> \notin corrupt
             => \E i \in 1..Len(it.out) : it.out[i][1] = k

----------------------------------------------------------------------------
(* C10: Iteration completeness.  For a column whose committed contents are *)
(* N distinct keys (none of them in error, none changed meanwhile),        *)
(* iterate yields exactly those N pairs in ascending key order and then    *)
(* ends; for a declared column they are the entries of its own segment.    *)
C10_IterationComplete ==
    (IterEnded /\ ~it.sawErr /\ Cardinality(it.versions) = 1)
    => /\ \A t \in it.versions : Yields(it.out, t)
       /\ Declared(it.col) =>
             /\ ResolvesPlainly(it.col)
             /\ it.versions = {TreeAt(columns, it.col)}

\* all three keys of column 0 yielded while the default column holds others
C10_Witness ==
    /\ IterEnded
    /\ ~it.sawErr
    /\ it.col = SomeCol(0)
    /\ Len(it.out) = 3
    /\ DOMAIN columns[1] = {<<2>>}
    /\ columns[1][<<2>>] # columns[2][<<2>>]

----------------------------------------------------------------------------
(* C11: Prefix scan.  A consumed scanPrefix(column, prefix) (no entry in   *)
(* error, none changed meanwhile) has yielded exactly the entries whose    *)
(* key starts with prefix, a key equal to the prefix included, in          *)
(* ascending key order and no others; for a declared column they are the   *)
(* entries of its own segment.                                             *)
C11_PrefixScan ==
    (IterEnded /\ ~it.sawErr /\ Cardinality(it.versions) = 1)
    => /\ \A t \in it.versions : YieldsPrefix(it.out, t, it.prefix)
       /\ Declared(it.col) =>
             /\ ResolvesPlainly(it.col)
             /\ it.versions = {TreeAt(columns, it.col)}

\* keys {1, 12, 2} of column 0 scanned under prefix 1: exactly 1 and 12
C11_Witness ==
    /\ IterEnded
    /\ ~it.sawErr
    /\ it.col = SomeCol(0)
    /\ it.prefix = <<1>>
    /\ DOMAIN columns[2] = Keys3
    /\ DOMAIN columns[1] = {<<2>>}
    /\ Len(it.out) = 2
    /\ it.out[1][1] = <<1>>
    /\ it.out[2][1] = <<1, 2>>

----------------------------------------------------------------------------
(* C12: getByPrefix(column, prefix), on a declared column none of whose    *)
(* entries under the prefix is in error, returns the value stored under    *)
(* the smallest key that starts with the prefix (also when that key is the *)
(* prefix itself), and returns none exactly when no key of the column      *)
(* starts with the prefix.                                                 *)
C12_GetByPrefix ==
    (/\ call.op = "get_by_prefix"
     /\ call.pc = "returned"
     /\ Declared(call.col))
    => /\ call.ret.tag # "Panic"
       /\ ResolvesPlainly(call.col)
       /\ LET t == TreeAt(columns, call.col)
              m == Matching(t, call.prefix) IN
          Readable(to_sled_column(call.col), t, call.prefix)
          => /\ call.ret = RetNone <=> m = {}
             /\ \A k \in m :
                   (\A j \in m : j = k \/ KeyLess(k, j))
                      => call.ret = RetSome(t[k])

\* the prefix is itself a key, and a longer key under it holds another value
C12_Witness ==
    /\ call.op = "get_by_prefix"
    /\ call.pc = "returned"
    /\ call.col = SomeCol(0)
    /\ call.prefix = <<1>>
    /\ call.ret.tag = "Some"
    /\ corrupt = {}
    /\ DOMAIN columns[2] = Keys3
    /\ columns[2][<<1>>] # columns[2][<<1, 2>>]
    /\ call.ret = RetSome(columns[2][<<1>>])

----------------------------------------------------------------------------
(* C13: write_buffered never propagates a failure.  Whatever failure the   *)
(* write it makes meets, control comes back to write_buffered, which       *)
(* returns normally.  In the code the write aborts the process on an       *)
(* unsupported arity (C7) and on a column index out of bounds, and the     *)
(* abort unwinds through write_buffered.                                   *)
C13_NeverPropagates ==
    (InWriteBuffered /\ call.pc = "returned")
    => /\ call.ret.tag \in {"Ok", "Err"}
       /\ db # "aborted"

----------------------------------------------------------------------------
(* C14: flush.  The flushes are requested in registry order, index 0       *)
(* first; flush returns Ok only when every segment was flushed; at the     *)
(* first segment whose flush fails it returns the error at once, no later  *)
(* segment having been asked to flush, and the segments flushed before     *)
(* stay flushed (the list of flushed segments only grows during a call).   *)
C14_Flush ==
    /\ [](call.op = "flush" =>
            /\ \E m \in 0..Len(columns) : call.asked = Registry(m)
            /\ call.ret.tag \in {"Pending", "Ok", "Err"}
            /\ call.ret = RetOk => call.flushed = Registry(Len(columns))
            /\ call.ret.tag = "Err" =>
                  /\ call.pc = "returned"
                  /\ call.asked # <<>>
                  /\ call.flushed = Registry(Len(call.asked) - 1))
    /\ [][(call.op = "flush" /\ call'.op = "flush") =>
            /\ IsPrefix(call.flushed, call'.flushed)
            /\ call.pc # "returned"]_vars

\* of nine segments the fourth failed to flush: three flushed, five not asked
C14_Witness ==
    /\ call.op = "flush"
    /\ call.pc = "returned"
    /\ call.ret.tag = "Err"
    /\ Len(columns) = 9
    /\ call.asked = <<0, 1, 2, 3>>
    /\ call.flushed = <<0, 1, 2>>

----------------------------------------------------------------------------
(* C15: Teardown never fails.  Dropping a Database makes one pass of flush *)
(* over the segments and completes normally whatever that flush returned:  *)
(* the process is not aborted, the error is not handed to the caller.      *)
C15_TeardownNeverFails ==
    /\ InDrop => db = "open"
    /\ (call.op = "drop" /\ call.pc = "returned")
       => /\ call.ret = RetOk
          /\ db = "closed"
          /\ call.result.tag \in {"Ok", "Err"}
          /\ \E m \in 0..call.trees : call.asked = Registry(m)

\* the flush of the teardown failed at the second segment, drop completed
C15_Witness ==
    /\ call.op = "drop"
    /\ call.pc = "returned"
    /\ call.result.tag = "Err"
    /\ call.asked = <<0, 1>>
    /\ call.ret = RetOk
    /\ db = "closed"

----------------------------------------------------------------------------
(* C16: Supported arities.  A database opened with 0 declared logical      *)
(* columns has 1 segment and one opened with 8 has 9, so a write (of       *)
(* operations on declared columns) goes through a fixed-arity path and     *)
(* does not abort.  The code opens n + 2 trees for columns = Some(n) (C5): *)
(* Some(8) gives 10 and Some(0) gives 2, and write aborts on both.         *)
C16_SupportedArities ==
    ((db = "open" \/ WriteReturned) /\ DeclaredCount \in {0, 8})
    => /\ Len(columns) = DeclaredCount + 1
       /\ (WriteReturned /\ AllDeclared(call.tr)) => call.ret.tag # "Panic"

----------------------------------------------------------------------------
(* C17: Column isolation.  A committed write changes only the (segment,    *)
(* key) pairs its operations resolve to, and a get on any column and key   *)
(* that no operation of the write names returns what it returned before    *)
(* the write.  The first half holds; the truncation of to_sled_column (C6) *)
(* resolves distinct columns to one segment, so the second does not.       *)
C17_ColumnIsolation ==
    WriteCommitted =>
       /\ \A i \in 1..Len(columns), k \in Keys2 :
             <<i - 1, k>> \notin Cells(call.tr)
                => Held(columns, i, k) = Held(call.pre, i, k)
       /\ \A d \in GetCols, k \in Keys2, checks \in BOOLEAN :
             ~Names(call.tr, d, k)
                => GetResult(columns, d, k, checks)
                      = GetResult(call.pre, d, k, checks)

----------------------------------------------------------------------------
(* C18: Last operation wins.  After a committed write, the key of every    *)
(* cell the transaction addresses is in the state set by the last          *)
(* operation on that cell: holding its value for an Insert, absent for a   *)
(* Delete, whatever the earlier operations on the cell were.               *)
C18_LastWins ==
    WriteCommitted =>
       \A j \in 1..Len(call.tr) :
          LastOnCell(call.tr, j)
          => Held(columns, to_sled_column(call.tr[j].col) + 1, call.tr[j].key)
                = (IF call.tr[j].kind = "Insert"
                   THEN RetSome(call.tr[j].value) ELSE RetNone)

\* two inserts of different values under one key of column 0: the second stays
C18_Witness ==
    /\ WriteCommitted
    /\ Len(call.tr) = 2
    /\ call.tr[1].kind = "Insert"
    /\ call.tr[2].kind = "Insert"
    /\ call.tr[1].col = SomeCol(0)
    /\ CellOf(call.tr[1]) = CellOf(call.tr[2])
    /\ call.tr[1].value # call.tr[2].value
    /\ Held(columns, 2, call.tr[2].key) = RetSome(call.tr[2].value)

====
